---- MODULE Spec2Model ----
(***************************************************************************)
(* Model of woog-life/potsdam-scraper, src/main.py: one run of the script  *)
(* that reads the Potsdam gauge page, extracts the water temperature row,  *)
(* converts it to a (UTC timestamp, temperature) pair and PUTs it to the   *)
(* backend, alerting over Telegram when main() returns a failure.          *)
(*                                                                         *)
(* Texts are sequences of one-character strings so that `in`, split(),     *)
(* replace(), float() and strptime() are computed and not assumed.         *)
(* Temperatures are exact decimals counted in units of 10^-Scale degrees.  *)
(***************************************************************************)
EXTENDS Integers, Sequences, FiniteSets, TLC

VARIABLES
    environ,            \* os.environ: POTSDAM_UUID, API_KEY, TOKEN, TELEGRAM_CHATLIST
    pc,                 \* position of the run in main() / the module body
    content,            \* main.content: the document returned by get_website
    temperature_row,    \* main.temperature_row: index of the row in the table, 0 for None
    water_information,  \* main.water_information
    response,           \* main.response
    generated_backend_url, \* main.generated_backend_url
    success,            \* module-level success
    message,            \* module-level message
    exception,          \* the exception that left main() or the module uncaught
    exit_status,        \* process exit status, -1 while running
    calls,              \* the functions of main.py called so far, in order
    http_log,           \* requests sent with requests.get / requests.put
    telegram_log,       \* Bot.send_message calls that were delivered
    validated           \* times the temperature <= 0 rule has been evaluated

vars == <<environ, pc, content, temperature_row, water_information, response,
          generated_backend_url, success, message, exception, exit_status,
          calls, http_log, telegram_log, validated>>

----------------------------------------------------------------------------
(* Bounds of the model *)

\* longest table (number of tr) enumerated exhaustively for extract_table_row
MaxRows == 6
\* first calendar year of the timestamps enumerated
FirstYear == 2023
\* number of consecutive calendar years enumerated
NumYears == 2

----------------------------------------------------------------------------
(* Python values *)

None == [set |-> FALSE, value |-> <<>>]
Some(s) == [set |-> TRUE, value |-> s]
\* truthiness of an Optional[str]: None and "" are falsy
Falsy(v) == ~v.set \/ v.value = <<>>

Digit == {"0", "1", "2", "3", "4", "5", "6", "7", "8", "9"}
DigitVal(c) ==
    CASE c = "0" -> 0 [] c = "1" -> 1 [] c = "2" -> 2 [] c = "3" -> 3
      [] c = "4" -> 4 [] c = "5" -> 5 [] c = "6" -> 6 [] c = "7" -> 7
      [] c = "8" -> 8 [] c = "9" -> 9
DigitChr(n) ==
    CASE n = 0 -> "0" [] n = 1 -> "1" [] n = 2 -> "2" [] n = 3 -> "3"
      [] n = 4 -> "4" [] n = 5 -> "5" [] n = 6 -> "6" [] n = 7 -> "7"
      [] n = 8 -> "8" [] n = 9 -> "9"

\* str.strip(): drop leading and trailing blanks
RECURSIVE LStrip(_)
LStrip(s) == IF s # <<>> /\ Head(s) = " " THEN LStrip(Tail(s)) ELSE s
RECURSIVE RStrip(_)
RStrip(s) ==
    IF s # <<>> /\ s[Len(s)] = " " THEN RStrip(SubSeq(s, 1, Len(s) - 1)) ELSE s
Strip(s) == LStrip(RStrip(s))

\* needle in hay (Python's substring test)
IsSubstring(needle, hay) ==
    \E i \in 0..(Len(hay) - Len(needle)) :
        SubSeq(hay, i + 1, i + Len(needle)) = needle

\* s.replace(a, b) for single characters
Replace(s, a, b) == [i \in 1..Len(s) |-> IF s[i] = a THEN b ELSE s[i]]

\* s.split(sep) for a single-character separator: always at least one part
RECURSIVE Split(_, _)
Split(s, sep) ==
    IF \A i \in 1..Len(s) : s[i] # sep
    THEN <<s>>
    ELSE LET k == CHOOSE i \in 1..Len(s) :
                      s[i] = sep /\ \A j \in 1..(i - 1) : s[j] # sep
         IN  <<SubSeq(s, 1, k - 1)>> \o Split(SubSeq(s, k + 1, Len(s)), sep)

----------------------------------------------------------------------------
(* The parsed document (BeautifulSoup): whether a table with                *)
(* summary="Messwertgeber am Pegel" exists, and the td texts of each of its *)
(* tr in document order.  A tr without td is the empty sequence.           *)

\* the marker 'Wassertemperatur', shortened to two symbols: long enough for
\* a text to hold a part of it, the whole of it, or the whole inside more text
Wassertemperatur == <<"W", "t">>

\* main.py:79 len(rows) < 5
MinRows == 5
\* main.py:107 len(columns) < 3
MinColumns == 3

\* main.py:84-87, the for loop from row i on: the index of the first row whose
\* first td holds the marker, 0 when the loop ends without a return.  The
\* guard `columns and` keeps columns[0] from raising IndexError.
RECURSIVE ScanRowsNoGuard(_, _)
ScanRowsNoGuard(rows, i) ==
    IF i > Len(rows) THEN 0
    ELSE LET columns == rows[i]
         IN  IF columns = <<>> THEN 0    \* IndexError, caught at line 88: pass
             ELSE IF IsSubstring(Wassertemperatur, columns[1]) THEN i
             ELSE ScanRowsNoGuard(rows, i + 1)

RECURSIVE ScanRows(_, _)
ScanRows(rows, i) ==
    IF i > Len(rows) THEN 0
    ELSE LET columns == rows[i]
         IN  IF columns # <<>> /\ IsSubstring(Wassertemperatur, columns[1])
             THEN i
             ELSE ScanRows(rows, i + 1)

ExtractTableRowNoFloor(html) ==
    IF ~html.table THEN 0
    ELSE IF html.rows = <<>> THEN 0
    ELSE ScanRows(html.rows, 1)

\* extract_table_row: the index of the returned tr, 0 for None
ExtractTableRow(html) ==
    IF ~html.table THEN 0
    ELSE IF html.rows = <<>> \/ Len(html.rows) < MinRows THEN 0
    ELSE ScanRows(html.rows, 1)

----------------------------------------------------------------------------
(* float(text.replace(",", ".")) *)

\* decimal places kept by the exact representation of a temperature
Scale == 2

RECURSIVE Pow10(_)
Pow10(n) == IF n = 0 THEN 1 ELSE 10 * Pow10(n - 1)

\* the number a run of digits denotes ("" denotes 0 here; callers check)
RECURSIVE Num(_)
Num(s) == IF s = <<>> THEN 0 ELSE 10 * Num(SubSeq(s, 1, Len(s) - 1)) + DigitVal(s[Len(s)])

AllDigits(s) == \A i \in 1..Len(s) : s[i] \in Digit

\* float(s) for decimal literals [sign] digits [. digits] of at most Scale
\* decimals (all the texts enumerated): ok is FALSE where float raises
\* ValueError, value counts units of 10^-Scale
Float(s) ==
    LET signed == s # <<>> /\ s[1] \in {"-", "+"}
        body   == IF signed THEN Tail(s) ELSE s
        parts  == Split(body, ".")
        ip     == parts[1]
        fp     == IF Len(parts) = 2 THEN parts[2] ELSE <<>>
        wellformed ==
            /\ Len(parts) <= 2
            /\ AllDigits(ip) /\ AllDigits(fp)
            /\ Len(ip) + Len(fp) >= 1
            /\ Len(fp) <= Scale
        mag    == Num(ip) * Pow10(Scale) + Num(fp) * Pow10(Scale - Len(fp))
    IN  IF wellformed
        THEN [ok |-> TRUE, value |-> IF signed /\ s[1] = "-" THEN 0 - mag ELSE mag]
        ELSE [ok |-> FALSE, value |-> 0]

----------------------------------------------------------------------------
(* datetime.strptime(text, "%d.%m.%Y %H:%M Uhr") *)

IsLeap(y) == y % 4 = 0 /\ (y % 100 # 0 \/ y % 400 = 0)
DaysInMonth(y, m) ==
    IF m = 2 THEN (IF IsLeap(y) THEN 29 ELSE 28)
    ELSE IF m \in {4, 6, 9, 11} THEN 30 ELSE 31

\* the non-empty parts of s.split(" "): the format's blank matches \s+
NonEmpty(parts) == SelectSeq(parts, LAMBDA x : x # <<>>)

\* _strptime compiles the format with re.IGNORECASE
Lower(c) == CASE c = "U" -> "u" [] c = "H" -> "h" [] c = "R" -> "r" [] OTHER -> c
LowerStr(s) == [i \in 1..Len(s) |-> Lower(s[i])]

\* one or two digits, as the regular expressions of %d %m %H %M take them
Field(s, lo, hi) ==
    /\ Len(s) \in {1, 2}
    /\ AllDigits(s)
    /\ Num(s) >= lo /\ Num(s) <= hi

\* ok is FALSE where strptime raises ValueError
Strptime(s) ==
    LET dots   == Split(s, ".")
        rest   == IF Len(dots) = 3 THEN NonEmpty(Split(dots[3], " ")) ELSE <<>>
        hm     == IF Len(rest) = 3 THEN Split(rest[2], ":") ELSE <<>>
        shape  ==
            /\ Len(dots) = 3 /\ Len(rest) = 3 /\ Len(hm) = 2
            /\ dots[3] # <<>> /\ dots[3][1] # " "
            /\ Field(dots[1], 1, 31)
            /\ Field(dots[2], 1, 12)
            /\ Len(rest[1]) = 4 /\ AllDigits(rest[1])
            /\ Field(hm[1], 0, 23)
            /\ Field(hm[2], 0, 59)
            /\ LowerStr(rest[3]) = <<"u", "h", "r">>
        year   == Num(rest[1])
        month  == Num(dots[2])
        day    == Num(dots[1])
    IN  IF shape /\ year >= 1 /\ day <= DaysInMonth(year, month)
        THEN [ok |-> TRUE, year |-> year, month |-> month, day |-> day,
              hour |-> Num(hm[1]), minute |-> Num(hm[2])]
        ELSE [ok |-> FALSE, year |-> 0, month |-> 0, day |-> 0,
              hour |-> 0, minute |-> 0]

----------------------------------------------------------------------------
(* datetime arithmetic: proleptic Gregorian ordinals, as datetime.py       *)

DaysBeforeYear(y) ==
    (y - 1) * 365 + (y - 1) \div 4 - (y - 1) \div 100 + (y - 1) \div 400

\* _days_before_month: the _DAYS_BEFORE_MONTH table, a day more past a leap February
DaysBeforeMonth(y, m) ==
    <<0, 31, 59, 90, 120, 151, 181, 212, 243, 273, 304, 334>>[m]
    + (IF m > 2 /\ IsLeap(y) THEN 1 ELSE 0)

\* date.toordinal(): 0001-01-01 is day 1
Ymd2Ord(y, m, d) == DaysBeforeYear(y) + DaysBeforeMonth(y, m) + d

\* date.fromordinal()
Ord2Ymd(ord) ==
    LET n0   == ord - 1
        n400 == n0 \div 146097
        r400 == n0 % 146097
        n100 == r400 \div 36524
        r100 == r400 % 36524
        n4   == r100 \div 1461
        r4   == r100 % 1461
        n1   == r4 \div 365
        n    == r4 % 365
        year == n400 * 400 + 1 + n100 * 100 + n4 * 4 + n1
    IN  IF n1 = 4 \/ n100 = 4
        THEN [year |-> year - 1, month |-> 12, day |-> 31]
        ELSE LET leapyear  == n1 = 3 /\ (n4 # 24 \/ n100 = 3)
                 estimate  == (n + 50) \div 32
                 preceding == <<0, 31, 59, 90, 120, 151, 181, 212, 243, 273, 304, 334>>[estimate]
                              + (IF estimate > 2 /\ leapyear THEN 1 ELSE 0)
                 month     == IF preceding > n THEN estimate - 1 ELSE estimate
             IN  [year |-> year, month |-> month,
                  day |-> n - DaysBeforeMonth(year, month) + 1]

\* minutes since 0001-01-01T00:00 of a naive datetime, and back
ToMinutes(dt) ==
    (Ymd2Ord(dt.year, dt.month, dt.day) - 1) * 1440 + dt.hour * 60 + dt.minute
FromMinutes(t) ==
    LET ymd == Ord2Ymd(t \div 1440 + 1)
    IN  [year |-> ymd.year, month |-> ymd.month, day |-> ymd.day,
         hour |-> (t % 1440) \div 60, minute |-> t % 60]

----------------------------------------------------------------------------
(* pytz.timezone("Europe/Berlin"): EU rule, in force for the years modelled *)

\* the day of the last Sunday of month m (date.weekday() = 6)
LastSunday(y, m) ==
    CHOOSE d \in (DaysInMonth(y, m) - 6)..DaysInMonth(y, m) :
        (Ymd2Ord(y, m, d) + 6) % 7 = 6

\* the zone's transitions, in UTC minutes: CEST from the last Sunday of March
\* 01:00 UTC to the last Sunday of October 01:00 UTC
DstStart(y) == (Ymd2Ord(y, 3, LastSunday(y, 3)) - 1) * 1440 + 60
DstEnd(y) == (Ymd2Ord(y, 10, LastSunday(y, 10)) - 1) * 1440 + 60

\* utcoffset, in minutes, of the transition period holding UTC minute t
\* (the bisect over _utc_transition_times)
OffsetAt(t) ==
    LET y == Ord2Ymd(t \div 1440 + 1).year
    IN  IF DstStart(y) <= t /\ t < DstEnd(y) THEN 120 ELSE 60

\* the same with is_dst=True
LocalizeOffsetDst(w) ==
    LET cands    == {OffsetAt(w - 1440), OffsetAt(w + 1440)}
        possible == {o \in cands : OffsetAt(w - o) = o}
    IN  IF Cardinality(possible) = 1 THEN CHOOSE o \in possible : TRUE
        ELSE 120

\* DstTzInfo.localize(dt, is_dst=False) for wall minute w: the utcoffset of
\* the tzinfo attached.  Candidates are the periods found a day before and a
\* day after; a candidate stands if it maps back to the same wall time.
RECURSIVE LocalizeOffset(_)
LocalizeOffset(w) ==
    LET cands    == {OffsetAt(w - 1440), OffsetAt(w + 1440)}
        possible == {o \in cands : OffsetAt(w - o) = o}
    IN  IF Cardinality(possible) = 1 THEN CHOOSE o \in possible : TRUE
        ELSE IF possible = {}
             THEN LocalizeOffset(w - 360)     \* a wall time that never was
             ELSE CHOOSE o \in possible : o = 60  \* ambiguous: is_dst=False

\* local.localize(time).astimezone(pytz.utc) as a naive UTC datetime
ToUtc(dt) == FromMinutes(ToMinutes(dt) - LocalizeOffset(ToMinutes(dt)))

\* two-digit and four-digit zero-padded decimals
Pad2(n) == <<DigitChr(n \div 10), DigitChr(n % 10)>>
Pad4(n) == <<DigitChr(n \div 1000), DigitChr((n \div 100) % 10),
             DigitChr((n \div 10) % 10), DigitChr(n % 10)>>

\* datetime.isoformat() of an aware UTC datetime with zero seconds
IsoFormat(u) ==
    Pad4(u.year) \o <<"-">> \o Pad2(u.month) \o <<"-">> \o Pad2(u.day) \o <<"T">>
    \o Pad2(u.hour) \o <<":">> \o Pad2(u.minute) \o <<":", "0", "0">>
    \o <<"+", "0", "0", ":", "0", "0">>

----------------------------------------------------------------------------
(* What the environment can supply *)

\* how the site prints a reading's time: "dd.mm.yyyy HH:MM Uhr"
Fmt(d, m, y, H, M) ==
    Pad2(d) \o <<".">> \o Pad2(m) \o <<".">> \o Pad4(y) \o <<" ">>
    \o Pad2(H) \o <<":">> \o Pad2(M) \o <<" ", "U", "h", "r">>

Years == FirstYear..(FirstYear + NumYears - 1)

EnvValues(s) == {None, Some(<<>>), Some(s)}
Environments ==
    [POTSDAM_UUID : EnvValues(<<"u">>),
     API_KEY : EnvValues(<<"k">>),
     TOKEN : EnvValues(<<"t">>),
     TELEGRAM_CHATLIST : EnvValues(<<"1">>) \cup {Some(<<"1", ",", "2">>)}]

\* td texts of the temperature column served
TemperatureTexts ==
    { <<"1", "8", ",", "4">>, <<"0", ",", "0">>, <<"-", "1", ",", "5">>,
      <<"0", ",", "0", "1">>, <<" ", "2", "1", ",", "0", " ">>, <<"x">> }

\* td texts of the time column served
TimeTexts ==
    { Fmt(24, 7, FirstYear, 14, 30), Fmt(24, 12, FirstYear, 9, 0),
      Fmt(1, 1, FirstYear + 1, 0, 30), Fmt(31, 2, FirstYear, 12, 0),
      <<" ">> \o Fmt(1, 7, FirstYear, 1, 15) \o <<" ">>, <<"x">> }

\* rows that carry the marker in their first td
MarkerRows ==
    { <<Wassertemperatur, t, ts>> : t \in TemperatureTexts, ts \in TimeTexts }
    \cup { <<Wassertemperatur>>, <<Wassertemperatur, <<"1", "8", ",", "4">>>>,
           << <<"x">> \o Wassertemperatur \o <<"y">>, <<"1", "8", ",", "4">>,
              Fmt(24, 7, FirstYear, 14, 30), <<"x">> >> }

\* rows that do not: a tr of th only, another sensor, a broken marker
OtherRows == { <<>>, << <<"W">>, <<"1", ",", "0">>, <<"x">> >>,
               << <<"W", "x", "t">> >> }

Repeat(row, n) == [i \in 1..n |-> row]

\* documents get_website can return to the run
Documents ==
    { [table |-> FALSE, rows |-> <<>>] }
    \cup { [table |-> TRUE, rows |-> Repeat(o, n)] : o \in OtherRows, n \in 0..MaxRows }
    \cup UNION { { [table |-> TRUE, rows |-> Repeat(o, b) \o <<r>> \o Repeat(o, a)] :
                     o \in OtherRows, r \in MarkerRows, a \in {0, MaxRows - 1 - b} } :
                   b \in 0..(MaxRows - 1) }

\* every table of up to MaxRows rows over four kinds of row
RowKinds ==
    { <<>>, << <<"W">>, <<"x">> >>, << Wassertemperatur, <<"1">> >>,
      << <<"x">> \o Wassertemperatur, <<"2">> >> }
Tables ==
    UNION { [1..n -> RowKinds] : n \in 0..MaxRows }

----------------------------------------------------------------------------
(* The run *)

TEMPERATURE_URL == <<"https://www.pegelonline.wsv.de/gast/stammdaten?pegelnr=580412">>
BACKEND_URL == "http://api:80"
\* BACKEND_PATH.format(UUID) joined to BACKEND_URL with "/"
BackendUrl == <<BACKEND_URL, "/", "lake/">> \o environ.POTSDAM_UUID.value \o <<"/temperature">>
ManualApproval == <<"water_temperature is <= 0, please approve this manually.">>
DefaultChatlist == <<"1", "3", "9", "6", "5", "6", "4", "2", "8">>

NoInformation == [set |-> FALSE, time |-> <<>>, temperature |-> 0]
NoResponse == [set |-> FALSE, ok |-> FALSE, content |-> ""]
NoDocument == [table |-> FALSE, rows |-> <<>>]
Msg(text, url, info, body) == [text |-> text, url |-> url, info |-> info, body |-> body]
NoMessage == Msg("", <<>>, NoInformation, "")
Request(method, url, info) ==
    [method |-> method, url |-> url, temperature |-> info.temperature, time |-> info.time]

Init ==
    /\ environ \in Environments
    /\ pc = "main"
    /\ content = NoDocument
    /\ temperature_row = 0
    /\ water_information = NoInformation
    /\ response = NoResponse
    /\ generated_backend_url = <<>>
    /\ success = FALSE
    /\ message = NoMessage
    /\ exception = "none"
    /\ exit_status = -1
    /\ calls = <<>>
    /\ http_log = <<>>
    /\ telegram_log = <<>>
    /\ validated = 0

\* main() returns (ok, msg) to line 188
Return(ok, msg) ==
    /\ pc' = "returned"
    /\ success' = ok
    /\ message' = msg

\* an exception nobody catches: traceback, exit status 1
Raise(exc) ==
    /\ pc' = "exited"
    /\ exception' = exc
    /\ exit_status' = 1

\* main.py:148-153
MainCheckConfigNoApiKey ==
    /\ pc = "main"
    /\ IF Falsy(environ.POTSDAM_UUID)
       THEN Return(FALSE, Msg("POTSDAM_UUID not defined", <<>>, NoInformation, ""))
       ELSE pc' = "get_website" /\ UNCHANGED <<success, message>>
    /\ UNCHANGED <<environ, content, temperature_row, water_information, response,
                   generated_backend_url, exception, exit_status, calls, http_log,
                   telegram_log, validated>>

MainCheckConfig ==
    /\ pc = "main"
    /\ IF Falsy(environ.POTSDAM_UUID)
       THEN Return(FALSE, Msg("POTSDAM_UUID not defined", <<>>, NoInformation, ""))
       ELSE IF Falsy(environ.API_KEY)
       THEN Return(FALSE, Msg("API_KEY not defined", <<>>, NoInformation, ""))
       ELSE pc' = "get_website" /\ UNCHANGED <<success, message>>
    /\ UNCHANGED <<environ, content, temperature_row, water_information, response,
                   generated_backend_url, exception, exit_status, calls, http_log,
                   telegram_log, validated>>

\* main.py:156-160 with get_website (53-63): requests.get either raises or
\* returns a body, which decodes to some document; success is always True
GetWebsite ==
    /\ pc = "get_website"
    /\ calls' = Append(calls, "get_website")
    /\ http_log' = Append(http_log, Request("GET", TEMPERATURE_URL, NoInformation))
    /\ \E reached \in BOOLEAN :
         IF reached
         THEN /\ \E doc \in Documents : content' = doc
              /\ pc' = "extract_table_row"
              /\ UNCHANGED <<exception, exit_status>>
         ELSE /\ Raise("requests.exceptions.ConnectionError")
              /\ UNCHANGED content
    /\ UNCHANGED <<environ, temperature_row, water_information, response,
                   generated_backend_url, success, message, telegram_log, validated>>

\* main.py:162-167 with parse_website_xml and extract_table_row (66-92)
MainExtractTableRow ==
    /\ pc = "extract_table_row"
    /\ calls' = Append(calls, "extract_table_row")
    /\ temperature_row' = ExtractTableRow(content)
    /\ IF temperature_row' = 0
       THEN Return(FALSE, Msg("Couldn't find a row with 'Wassertemperatur' as a description",
                              <<>>, NoInformation, ""))
       ELSE pc' = "get_water_information" /\ UNCHANGED <<success, message>>
    /\ UNCHANGED <<environ, content, water_information, response,
                   generated_backend_url, exception, exit_status, http_log,
                   telegram_log, validated>>

\* get_water_information (104-120) on the td texts of the row: exc names the
\* exception raised, info is the value returned (NoInformation for None).
\* strptime runs first, float second, and only then the tuple exists.
GetWaterInformation(columns) ==
    IF Len(columns) < MinColumns
    THEN [exc |-> "none", info |-> NoInformation]
    ELSE LET time == Strptime(Strip(columns[3]))
             temperature == Float(Replace(Strip(columns[2]), ",", "."))
         IN  IF ~time.ok THEN [exc |-> "ValueError", info |-> NoInformation]
             ELSE IF ~temperature.ok THEN [exc |-> "ValueError", info |-> NoInformation]
             ELSE [exc |-> "none",
                   info |-> [set |-> TRUE, time |-> IsoFormat(ToUtc(time)),
                             temperature |-> temperature.value]]

\* main.py:169-174
MainGetWaterInformation ==
    /\ pc = "get_water_information"
    /\ calls' = Append(calls, "get_water_information")
    /\ LET got == GetWaterInformation(content.rows[temperature_row])
       IN  IF got.exc # "none"
           THEN Raise(got.exc) /\ UNCHANGED <<water_information, success, message>>
           ELSE /\ water_information' = got.info
                /\ UNCHANGED <<exception, exit_status>>
                /\ IF ~got.info.set
                   THEN Return(FALSE, Msg("Couldn't retrieve water information from",
                                          <<>>, NoInformation, ""))
                   ELSE pc' = "send_data_to_backend" /\ UNCHANGED <<success, message>>
    /\ UNCHANGED <<environ, content, temperature_row, response,
                   generated_backend_url, http_log, telegram_log, validated>>

\* the rule of main.py:130
RejectedStrict(water_temperature) == water_temperature < 0
Rejected(water_temperature) == water_temperature <= 0

\* send_data_to_backend (123-144), called at main.py:176
SendDataToBackend ==
    /\ pc = "send_data_to_backend"
    /\ calls' = Append(calls, "send_data_to_backend")
    /\ validated' = validated + 1
    /\ pc' = "check_response"
    /\ IF Rejected(water_information.temperature)
       THEN /\ response' = NoResponse
            /\ generated_backend_url' = ManualApproval
            /\ UNCHANGED http_log
       ELSE /\ http_log' = Append(http_log, Request("PUT", BackendUrl, water_information))
            /\ generated_backend_url' = BackendUrl
            /\ \E outcome \in {"2xx", "rejected", "ConnectionError"} :
                 response' =
                     CASE outcome = "2xx" -> [set |-> TRUE, ok |-> TRUE, content |-> "stored"]
                       [] outcome = "rejected" -> [set |-> TRUE, ok |-> FALSE, content |-> "denied"]
                       [] outcome = "ConnectionError" -> NoResponse
    /\ UNCHANGED <<environ, content, temperature_row, water_information, success,
                   message, exception, exit_status, telegram_log>>

\* main.py:178-183: the message reads response.content, also when response
\* is None
MainCheckResponseIgnoreOk ==
    /\ pc = "check_response"
    /\ IF ~response.set
       THEN Raise("AttributeError") /\ UNCHANGED <<success, message>>
       ELSE Return(TRUE, NoMessage) /\ UNCHANGED <<exception, exit_status>>
    /\ UNCHANGED <<environ, content, temperature_row, water_information, response,
                   generated_backend_url, calls, http_log, telegram_log, validated>>

MainCheckResponse ==
    /\ pc = "check_response"
    /\ IF ~response.set \/ ~response.ok
       THEN IF ~response.set
            THEN Raise("AttributeError") /\ UNCHANGED <<success, message>>
            ELSE /\ Return(FALSE, Msg("Failed to put data", generated_backend_url,
                                      water_information, response.content))
                 /\ UNCHANGED <<exception, exit_status>>
       ELSE Return(TRUE, NoMessage) /\ UNCHANGED <<exception, exit_status>>
    /\ UNCHANGED <<environ, content, temperature_row, water_information, response,
                   generated_backend_url, calls, http_log, telegram_log, validated>>

\* main.py:189 with success: the script ends, exit status 0
ModuleExit ==
    /\ pc = "returned"
    /\ success
    /\ pc' = "exited"
    /\ exit_status' = 0
    /\ UNCHANGED <<environ, content, temperature_row, water_information, response,
                   generated_backend_url, success, message, exception, calls,
                   http_log, telegram_log>>
    /\ UNCHANGED validated

\* os.getenv("TELEGRAM_CHATLIST") or "139656428", split at ","
Chatlist ==
    Split(IF Falsy(environ.TELEGRAM_CHATLIST) THEN DefaultChatlist
          ELSE environ.TELEGRAM_CHATLIST.value, ",")

\* main.py:189-194 without success, with send_telegram_alert (40-50): no token,
\* no message; otherwise one send_message per recipient, the first of which
\* may raise; then sys.exit(1)
ModuleAlert ==
    /\ pc = "returned"
    /\ ~success
    /\ calls' = Append(calls, "send_telegram_alert")
    /\ pc' = "exited"
    /\ exit_status' = 1
    /\ IF Falsy(environ.TOKEN)
       THEN UNCHANGED <<telegram_log, exception>>
       ELSE \E delivered \in BOOLEAN :
              IF delivered
              THEN /\ telegram_log' = telegram_log \o
                          [i \in 1..Len(Chatlist) |-> [chat_id |-> Chatlist[i], text |-> message]]
                   /\ UNCHANGED exception
              ELSE /\ exception' = "telegram.error.NetworkError"
                   /\ UNCHANGED telegram_log
    /\ UNCHANGED <<environ, content, temperature_row, water_information, response,
                   generated_backend_url, success, message, http_log, validated>>

Next ==
    \/ MainCheckConfig
    \/ GetWebsite
    \/ MainExtractTableRow
    \/ MainGetWaterInformation
    \/ SendDataToBackend
    \/ MainCheckResponse
    \/ ModuleExit
    \/ ModuleAlert

Spec == Init /\ [][Next]_vars

----------------------------------------------------------------------------
(* extract_table_row on every table: the run stands after get_website has  *)
(* returned some document, and main() calls extract_table_row               *)

AfterFetch(doc) ==
    /\ environ \in {e \in Environments : ~Falsy(e.POTSDAM_UUID) /\ ~Falsy(e.API_KEY)
                                          /\ e.TOKEN = None /\ e.TELEGRAM_CHATLIST = None}
    /\ content = doc
    /\ water_information = NoInformation
    /\ response = NoResponse
    /\ generated_backend_url = <<>>
    /\ success = FALSE
    /\ message = NoMessage
    /\ exception = "none"
    /\ exit_status = -1
    /\ calls = <<"get_website">>
    /\ http_log = <<Request("GET", TEMPERATURE_URL, NoInformation)>>
    /\ telegram_log = <<>>
    /\ validated = 0

InitLocate ==
    /\ \E tb \in BOOLEAN, t \in Tables : AfterFetch([table |-> tb, rows |-> t])
    /\ pc = "extract_table_row"
    /\ temperature_row = 0

NextLocate == MainExtractTableRow

SpecLocate == InitLocate /\ [][NextLocate]_vars

----------------------------------------------------------------------------
(* get_water_information on every time of day of every calendar date of    *)
(* Years: the run stands after extract_table_row has returned the fifth row *)

MinutesOfHour == {0, 59}

TimeDocument(ts) ==
    [table |-> TRUE,
     rows |-> Repeat(<<>>, MinRows - 1) \o << <<Wassertemperatur, <<"1", "8", ",", "4">>, ts>> >>]

InitTime ==
    /\ \E d \in 1..31, m \in 1..12, y \in Years, H \in 0..23, M \in MinutesOfHour :
           AfterFetch(TimeDocument(Fmt(d, m, y, H, M)))
    /\ pc = "get_water_information"
    /\ temperature_row = MinRows

NextTime == MainGetWaterInformation

SpecTime == InitTime /\ [][NextTime]_vars

----------------------------------------------------------------------------
(* Properties *)

Called(f) == \E i \in 1..Len(calls) : calls[i] = f
TimesCalled(f) == Cardinality({i \in 1..Len(calls) : calls[i] = f})
Puts == {i \in 1..Len(http_log) : http_log[i].method = "PUT"}
Gets == {i \in 1..Len(http_log) : http_log[i].method = "GET"}
Ended == pc = "exited"

\* C1: a run that ends in failure has called the notifier exactly once before
\* it exits with a failure status, and a run that succeeds has not called it,
\* whatever TOKEN and TELEGRAM_CHATLIST are.
C1_OneNotificationPerFailure ==
    Ended =>
        /\ exit_status = 1 => TimesCalled("send_telegram_alert") = 1
        /\ exit_status = 0 => TimesCalled("send_telegram_alert") = 0 /\ telegram_log = <<>>

\* the publish step ended in a transport failure: no response, and the target
\* URL as the second component
TransportFailure ==
    /\ Called("send_data_to_backend")
    /\ ~response.set
    /\ generated_backend_url = BackendUrl
    /\ Puts # {}

\* C2: when the PUT fails at the network level the publish step yields no
\* response together with the target URL, the run ends as a failure whose
\* message names that URL, and the notifier is called exactly once.
C2_TransportFailureReported ==
    (Ended /\ TransportFailure) =>
        /\ exit_status = 1
        /\ ~success
        /\ message.url = BackendUrl
        /\ TimesCalled("send_telegram_alert") = 1

\* C3: whenever the extracted temperature is <= 0 the run ends as a failure
\* whose message, returned by main() and handed to the notifier, is the
\* 'please approve this manually' reason, and not an unlabelled crash.
C3_DomainRejectionReported ==
    (Ended /\ water_information.set /\ water_information.temperature <= 0) =>
        /\ exit_status = 1
        /\ exception \notin {"AttributeError", "ValueError"}
        /\ message.url = ManualApproval
        /\ TimesCalled("send_telegram_alert") = 1

\* C4: the temperature <= 0 rule is evaluated at most once in a run and only
\* on a reading that extraction produced; every PUT in the run was issued
\* after the rule was evaluated and carries a temperature > 0.
C4_RuleOnceBeforePut ==
    /\ validated <= 1
    /\ validated = 1 => water_information.set
    /\ Called("send_data_to_backend") => validated = 1
    /\ \A i \in Puts : validated = 1 /\ http_log[i].temperature > 0
    /\ (water_information.set /\ water_information.temperature <= 0) => Puts = {}

\* a reading of temperature <= 0 was extracted, the rule was evaluated on it and
\* the run ended without a PUT
C4_Witness ==
    /\ Ended
    /\ water_information.set /\ water_information.temperature <= 0
    /\ validated = 1
    /\ Puts = {}

\* C5: with POTSDAM_UUID or API_KEY absent or empty the run fails before any
\* network call: no GET, no PUT, and no stage after the configuration check.
C5_NoNetworkWithoutConfig ==
    (Falsy(environ.POTSDAM_UUID) \/ Falsy(environ.API_KEY)) =>
        /\ http_log = <<>> /\ Gets = {} /\ Puts = {}
        /\ ~Called("get_website") /\ ~Called("send_data_to_backend")
        /\ pc \in {"main", "returned", "exited"}
        /\ pc \in {"returned", "exited"} => ~success
        /\ Ended => exit_status = 1

\* a run with the station identifier set and the API credential empty has ended
C5_Witness ==
    /\ Ended
    /\ ~Falsy(environ.POTSDAM_UUID)
    /\ environ.API_KEY = Some(<<>>)
    /\ exit_status = 1

\* C6: main() never ends by an uncaught exception: every failure of a stage is
\* returned as (False, message) with a non-empty message.
C6_NoExceptionEscapesMain ==
    /\ exception \notin {"requests.exceptions.ConnectionError", "ValueError", "AttributeError"}
    /\ (pc = "returned" /\ ~success) => message.text # ""

\* the reading was extracted whole, passed the rule, and one PUT carrying it
\* was answered ok
Delivered ==
    /\ water_information.set
    /\ Len(water_information.time) = 25
    /\ water_information.temperature > 0
    /\ response.set /\ response.ok
    /\ Cardinality(Puts) = 1
    /\ \A i \in Puts :
          /\ http_log[i].url = BackendUrl
          /\ http_log[i].temperature = water_information.temperature
          /\ http_log[i].time = water_information.time

\* C7: a run reports success only if the reading was extracted whole, passed
\* validation and was delivered by a PUT answered ok that carries exactly its
\* temperature and timestamp; every other run that ends is a failure; and every
\* PUT sent carries both fields of an extracted reading.
C7_SuccessIffDelivered ==
    /\ (pc \in {"returned", "exited"} /\ success) => Delivered
    /\ Ended => (exit_status = 0 <=> (success /\ Delivered))
    /\ Ended => exit_status \in {0, 1}
    /\ (Ended /\ ~Delivered) => exit_status = 1
    /\ \A i \in Puts :
          /\ water_information.set
          /\ http_log[i].time = water_information.time
          /\ Len(http_log[i].time) = 25
          /\ http_log[i].temperature = water_information.temperature

\* a run has ended in success: its one PUT carries the extracted reading and
\* was answered ok
C7_Witness ==
    /\ Ended
    /\ exit_status = 0
    /\ success
    /\ Delivered
    /\ telegram_log = <<>>

\* the three ways locating fails, read off the document
HasMarker(row) == row # <<>> /\ IsSubstring(Wassertemperatur, row[1])
NothingToLocate(html) ==
    \/ ~html.table
    \/ Len(html.rows) < MinRows
    \/ \A i \in 1..Len(html.rows) : ~HasMarker(html.rows[i])

\* C8: if the table is absent, has fewer than five rows, or has no row whose
\* first cell contains the marker, extract_table_row returns None, the run ends
\* as a failure, and neither get_water_information nor send_data_to_backend is
\* called.
C8_LocateFailureStopsRun ==
    (Called("extract_table_row") /\ NothingToLocate(content)) =>
        /\ temperature_row = 0
        /\ pc \in {"returned", "exited"}
        /\ ~success
        /\ message.text = "Couldn't find a row with 'Wassertemperatur' as a description"
        /\ Ended => exit_status = 1
        /\ ~Called("get_water_information")
        /\ ~Called("send_data_to_backend")
        /\ ~water_information.set
        /\ Puts = {}

\* a run has ended on a table of fewer than five rows one of which carries the
\* marker
C8_Witness ==
    /\ Ended
    /\ Called("extract_table_row")
    /\ content.table
    /\ Len(content.rows) < MinRows
    /\ \E i \in 1..Len(content.rows) : HasMarker(content.rows[i])

\* C10: on a table of at least five rows extract_table_row returns the first
\* row, in document order, whose first cell contains the marker, rows without
\* cells before it notwithstanding, and None only when no row matches.
C10_FirstMatchingRow ==
    (Called("extract_table_row") /\ content.table /\ Len(content.rows) >= MinRows) =>
        LET matching == {i \in 1..Len(content.rows) : HasMarker(content.rows[i])}
        IN  IF matching = {}
            THEN temperature_row = 0
            ELSE /\ temperature_row \in matching
                 /\ \A j \in matching : temperature_row <= j

\* a row without cells came first, the row returned is the first of two
\* matching rows with different contents
C10_Witness ==
    /\ Called("extract_table_row")
    /\ Len(content.rows) >= MinRows
    /\ content.rows[1] = <<>>
    /\ temperature_row > 1
    /\ \E j \in (temperature_row + 1)..Len(content.rows) :
          HasMarker(content.rows[j]) /\ content.rows[j] # content.rows[temperature_row]

----------------------------------------------------------------------------
(* C9: the time conversion, stated on the texts alone *)

\* the fields of the time text served, "dd.mm.yyyy HH:MM Uhr", read by position
ServedText == content.rows[temperature_row][3]
Wall ==
    [year |-> Num(SubSeq(ServedText, 7, 10)), month |-> Num(SubSeq(ServedText, 4, 5)),
     day |-> Num(SubSeq(ServedText, 1, 2)), hour |-> Num(SubSeq(ServedText, 12, 13)),
     minute |-> Num(SubSeq(ServedText, 15, 16))]

\* the fields of "yyyy-mm-ddTHH:MM:00+00:00", read by position
IsoFields(t) ==
    [year |-> Num(SubSeq(t, 1, 4)), month |-> Num(SubSeq(t, 6, 7)),
     day |-> Num(SubSeq(t, 9, 10)), hour |-> Num(SubSeq(t, 12, 13)),
     minute |-> Num(SubSeq(t, 15, 16))]
IsUtcIso(t) ==
    /\ Len(t) = 25
    /\ t[5] = "-" /\ t[8] = "-" /\ t[11] = "T" /\ t[14] = ":"
    /\ SubSeq(t, 17, 25) = <<":", "0", "0", "+", "0", "0", ":", "0", "0">>

\* the calendar, written out
MonthLength(y, m) ==
    IF m = 2 THEN (IF y % 4 = 0 /\ (y % 100 # 0 \/ y % 400 = 0) THEN 29 ELSE 28)
    ELSE <<31, 0, 31, 30, 31, 30, 31, 31, 30, 31, 30, 31>>[m]
RealDate(w) == w.day <= MonthLength(w.year, w.month)

\* the day before, with the roll-over of month and year
DayBefore(w) ==
    IF w.day > 1 THEN [w EXCEPT !.day = w.day - 1]
    ELSE IF w.month > 1
         THEN [w EXCEPT !.month = w.month - 1, !.day = MonthLength(w.year, w.month - 1)]
         ELSE [w EXCEPT !.year = w.year - 1, !.month = 12, !.day = 31]

\* the wall-clock time k hours earlier, k at most 24
HoursEarlier(w, k) ==
    IF w.hour >= k THEN [w EXCEPT !.hour = w.hour - k]
    ELSE [DayBefore(w) EXCEPT !.hour = w.hour + 24 - k]

\* the Sundays on which the clocks change, from the calendar
ChangeDay(y, m) ==
    CASE y = 2023 /\ m = 3 -> 26 [] y = 2023 /\ m = 10 -> 29
      [] y = 2024 /\ m = 3 -> 31 [] y = 2024 /\ m = 10 -> 27
      [] y = 2025 /\ m = 3 -> 30 [] y = 2025 /\ m = 10 -> 26
      [] y = 2026 /\ m = 3 -> 29 [] y = 2026 /\ m = 10 -> 25

\* w is at or after hour h of day d of month m, within its year
AtOrAfter(w, m, d, h) ==
    \/ w.month > m
    \/ w.month = m /\ w.day > d
    \/ w.month = m /\ w.day = d /\ w.hour >= h

\* wall-clock times shown while CEST is in force: from 03:00 on the last Sunday
\* of March up to, not including, 03:00 on the last Sunday of October
IsCEST(w) ==
    /\ AtOrAfter(w, 3, ChangeDay(w.year, 3), 3)
    /\ ~AtOrAfter(w, 10, ChangeDay(w.year, 10), 3)
\* wall-clock times shown while CET is in force: before 02:00 on the last
\* Sunday of March, and from 02:00 on the last Sunday of October
IsCET(w) ==
    \/ ~AtOrAfter(w, 3, ChangeDay(w.year, 3), 2)
    \/ AtOrAfter(w, 10, ChangeDay(w.year, 10), 2)
\* the hour shown twice, and the hour never shown
Repeated(w) == IsCEST(w) /\ IsCET(w)
Skipped(w) == ~IsCEST(w) /\ ~IsCET(w)

Converted == Called("get_water_information") /\ RealDate(Wall)
ConvertsTo(w) ==
    /\ water_information.set
    /\ IsUtcIso(water_information.time)
    /\ IsoFields(water_information.time) = w

\* C9 as claimed: every summer-time (CEST) text converts to the wall-clock time
\* minus 2 hours and every winter-time (CET) text to the wall-clock time minus
\* 1 hour.
C9_SummerMinus2WinterMinus1 ==
    Converted =>
        /\ IsCEST(Wall) => ConvertsTo(HoursEarlier(Wall, 2))
        /\ (IsCET(Wall) /\ ~Repeated(Wall)) => ConvertsTo(HoursEarlier(Wall, 1))

\* C9 as amended: a text that only CEST can show converts to the wall-clock
\* time minus 2 hours; every text CET can show, the repeated hour of the last
\* Sunday of October included, and the skipped hour of the last Sunday of
\* March convert to the wall-clock time minus 1 hour; day, month and year roll
\* over when the subtraction crosses midnight.
C9_UtcFromBerlinWallClock ==
    Converted =>
        /\ (IsCEST(Wall) /\ ~Repeated(Wall)) => ConvertsTo(HoursEarlier(Wall, 2))
        /\ IsCET(Wall) => ConvertsTo(HoursEarlier(Wall, 1))
        /\ Skipped(Wall) => ConvertsTo(HoursEarlier(Wall, 1))
        /\ ServedText = Fmt(24, 7, 2023, 14, 30) =>
              water_information.time =
                  <<"2", "0", "2", "3", "-", "0", "7", "-", "2", "4", "T", "1", "2",
                    ":", "3", "0", ":", "0", "0", "+", "0", "0", ":", "0", "0">>
        /\ ServedText = Fmt(24, 12, 2023, 9, 0) =>
              water_information.time =
                  <<"2", "0", "2", "3", "-", "1", "2", "-", "2", "4", "T", "0", "8",
                    ":", "0", "0", ":", "0", "0", "+", "0", "0", ":", "0", "0">>

\* a summer text just after midnight on the first day of a month has been
\* converted: the result lies in the month before
C9_Witness ==
    /\ Converted
    /\ IsCEST(Wall) /\ ~Repeated(Wall)
    /\ Wall.day = 1 /\ Wall.hour = 0
    /\ water_information.set
    /\ IsoFields(water_information.time).month = Wall.month - 1

====
